---------------------------- MODULE Spec2Model ----------------------------
(***************************************************************************)
(* Viewport-driven alert query engine of the warning-messages map          *)
(* (src/unnamed/part_002, the App component and its helpers).              *)
(*                                                                         *)
(* Coordinates.  Longitudes are integers counting 1/Scale of a degree.     *)
(* Latitudes are represented by their Web-Mercator ordinate                *)
(*     m(lat) = (180/pi) * ln(tan(lat) + sec(lat)),                        *)
(* in the same unit, so that the world's edge (lat = 85.0511287798...) is  *)
(* at MercEdge = 180 "degrees".  m is strictly increasing, so every        *)
(* comparison of two latitudes is preserved, and the slippy-tile row       *)
(*     floor((1 - ln(tan + sec)/pi) / 2 * n)                               *)
(* becomes floor((MercEdge - m) * n / (2 * MercEdge)).                     *)
(* Times are integers counting milliseconds.                               *)
(***************************************************************************)
EXTENDS Integers, Sequences, FiniteSets, TLC

\* ------------------------------------------------------------ bounds
\* Largest zoom level a modelled viewport requests.
MaxZoom == 3

\* ------------------------------------------------------------ units
Scale == 2 ^ MaxZoom
Deg(d) == d * Scale
MercEdge == Deg(180)

Max(a, b) == IF a >= b THEN a ELSE b
Min(a, b) == IF a <= b THEN a ELSE b

\* JavaScript's % : the remainder takes the sign of the dividend.
JsRem(a, m) == IF a >= 0 THEN a % m ELSE -((-a) % m)

\* ------------------------------------------------------------ constants
MAX_WAZE_TILE_BOXES_PER_REQUEST == 24
ZoomCap == 22
InitialZoom == 4

\* clampLat's constant 85.05112878 lies just beyond the exact Mercator edge
\* 85.0511287798...: in double arithmetic its tile ordinate is -6.2e-12, so
\* it falls one (smallest) unit outside the world.
WebMercatorMaxLat == MercEdge + 1
\* -85.05112877, the replacement for a south edge at the clamp, lies inside.
SafeSouthLat == -MercEdge + 1
\* 179.999999, the replacement for an east edge at 180.
SafeEastLng == Deg(180) - 1

\* ------------------------------------------------------------ GeoMath
\* normalizeLng for longitudes in any unit, half being 180 degrees in it.
NormalizeWithin(lng, half) ==
    LET n == JsRem(JsRem(lng + half, 2 * half) + 2 * half, 2 * half) - half
    IN  IF n = -half THEN half ELSE n

normalizeLng(lng) == NormalizeWithin(lng, Deg(180))

clampLat(lat) == Max(Min(lat, WebMercatorMaxLat), -WebMercatorMaxLat)

lng2tileX(lng, z) == ((lng + Deg(180)) * (2 ^ z)) \div Deg(360)

lat2tileY(lat, z) == ((MercEdge - clampLat(lat)) * (2 ^ z)) \div (2 * MercEdge)

tileX2lng(x, z) == ((x * Deg(360)) \div (2 ^ z)) - Deg(180)

tileY2lat(y, z) == MercEdge - ((y * 2 * MercEdge) \div (2 ^ z))

\* ------------------------------------------------------------ viewports
\* A Leaflet LatLngBounds (raw, un-normalised edges), or null.
NullBounds == [isNull |-> TRUE, north |-> 0, south |-> 0, west |-> 0, east |-> 0]
Bounds(n, s, w, e) == [isNull |-> FALSE, north |-> n, south |-> s, west |-> w, east |-> e]

\* ------------------------------------------------------------ TileQueryPlanner
\* Mutant: the antimeridian crossing is not split.
Spans_NoSplit(west, east) == << [west |-> west, east |-> east] >>

\* The longitudinal spans of a normalised viewport: two when it crosses the
\* antimeridian.
Spans(west, east) ==
    IF west > east
    THEN << [west |-> west, east |-> Deg(180)], [west |-> -Deg(180), east |-> east] >>
    ELSE << [west |-> west, east |-> east] >>

\* The tile index ranges of one span at zoom zz.
SpanTiles(span, north, south, zz) ==
    LET safeEast == IF span.east >= Deg(180) THEN SafeEastLng ELSE span.east
        safeSouth == IF south <= -WebMercatorMaxLat THEN SafeSouthLat ELSE south
    IN  [xMin |-> lng2tileX(span.west, zz), xMax |-> lng2tileX(safeEast, zz),
         yMin |-> lat2tileY(north, zz),     yMax |-> lat2tileY(safeSouth, zz)]

\* The union box of one span: one request per span.
UnionBox(t, zz) ==
    [top |-> tileY2lat(t.yMin, zz), bottom |-> tileY2lat(t.yMax + 1, zz),
     left |-> tileX2lng(t.xMin, zz), right |-> tileX2lng(t.xMax + 1, zz)]

\* The per-tile boxes of one span, in the order of the nested loops
\* (x outer, y inner); empty when a range is empty.
SpanDebugBoxes(t, zz) ==
    LET w == Max(0, t.xMax - t.xMin + 1)
        h == Max(0, t.yMax - t.yMin + 1)
    IN  [i \in 1..(w * h) |->
            LET x == t.xMin + ((i - 1) \div h)
                y == t.yMin + ((i - 1) % h)
            IN  [top |-> tileY2lat(y, zz), bottom |-> tileY2lat(y + 1, zz),
                 left |-> tileX2lng(x, zz), right |-> tileX2lng(x + 1, zz)]]

RECURSIVE ConcatAll(_)
ConcatAll(ss) == IF ss = << >> THEN << >> ELSE Head(ss) \o ConcatAll(Tail(ss))

computeAtZoom(spans, north, south, zz) ==
    LET tiles == [k \in 1..Len(spans) |-> SpanTiles(spans[k], north, south, zz)]
        debugBoxes == ConcatAll([k \in 1..Len(spans) |-> SpanDebugBoxes(tiles[k], zz)])
    IN  [requestBoxes |-> [k \in 1..Len(spans) |-> UnionBox(tiles[k], zz)],
         debugBoxes |-> debugBoxes,
         tileCount |-> Len(debugBoxes)]

\* Mutant: the zoom is lowered once at most (an if where the loop is).
LowerZoom_Once(spans, north, south, z) ==
    LET first == computeAtZoom(spans, north, south, z)
        lower == first.tileCount > MAX_WAZE_TILE_BOXES_PER_REQUEST /\ z > 0
        zz == IF lower THEN z - 1 ELSE z
        computed == computeAtZoom(spans, north, south, zz)
    IN  [requestBoxes |-> computed.requestBoxes,
         debugBoxes |-> computed.debugBoxes,
         tileCount |-> computed.tileCount,
         usedZoom |-> zz]

\* Mutant: Math.min and Math.max swapped, which clamps every zoom to 0.
StartZoom_Low(zoom) == 0

\* The while loop: lower the zoom until the tiles fit the cap or zoom is 0.
RECURSIVE LowerZoom(_, _, _, _)
LowerZoom(spans, north, south, z) ==
    LET computed == computeAtZoom(spans, north, south, z)
    IN  IF computed.tileCount > MAX_WAZE_TILE_BOXES_PER_REQUEST /\ z > 0
        THEN LowerZoom(spans, north, south, z - 1)
        ELSE [requestBoxes |-> computed.requestBoxes,
              debugBoxes |-> computed.debugBoxes,
              tileCount |-> computed.tileCount,
              usedZoom |-> z]

\* Math.round on the map's zoom, which is integral (zoomSnap = 1).
StartZoom(zoom) == Max(0, Min(ZoomCap, zoom))

buildWazeTileSnappedQuery(bounds, zoom) ==
    IF bounds.isNull
    THEN [requestBoxes |-> << >>, debugBoxes |-> << >>, tileCount |-> 0, usedZoom |-> zoom]
    ELSE LowerZoom(Spans(normalizeLng(bounds.west), normalizeLng(bounds.east)),
                   clampLat(bounds.north), clampLat(bounds.south), StartZoom(zoom))

\* ------------------------------------------------------------ bounds
\* Number of effect runs (view or env-mode changes) in a behaviour.
MaxCycles == 2
\* The clock runs for at most this many debounce periods.
MaxElapsed == 5
\* The clock's value (Date.now()) when the component mounts.
Now0 == 10000

\* ------------------------------------------------------------ constants
MIN_WAZE_FETCH_INTERVAL_MS == 2500
DEFAULT_WAZE_RETRY_AFTER_SEC == 30
debounceMs == 650

\* ------------------------------------------------------------ environment tag
\* The viewport's centre, doubled (so that it stays an integer), normalised
\* as normalizeLng normalises it.  The centre's latitude is taken in the
\* Mercator ordinate, where the thresholds 5 and 85 degrees are 5.006 and
\* 179.4: an approximation that matters only for centres within a unit of
\* a threshold.
inferWazeEnvFromBounds(bounds) ==
    IF bounds.isNull THEN "na"
    ELSE LET lat2 == bounds.south + bounds.north
             raw2 == bounds.west + bounds.east
             n2 == JsRem(JsRem(raw2 + 2 * Deg(180), 2 * Deg(360)) + 2 * Deg(360),
                         2 * Deg(360)) - 2 * Deg(180)
             lng2 == IF n2 = -2 * Deg(180) THEN 2 * Deg(180) ELSE n2
         IN  IF /\ lng2 <= 2 * Deg(-30) /\ lng2 >= 2 * Deg(-170)
                /\ lat2 > 2 * Deg(5) /\ lat2 <= 2 * Deg(179)
             THEN "na" ELSE "row"

ResolveEnv(mode, bounds) == IF mode = "auto" THEN inferWazeEnvFromBounds(bounds) ELSE mode

\* ------------------------------------------------------------ query key
\* Number(v.toFixed(5)): v (in 1/Scale of a degree) rounded to the nearest
\* 1e-5 of a degree, halves away from zero; the result counts 1e-5 degrees.
ToFixed5(v) ==
    LET a == IF v >= 0 THEN v ELSE -v
        r == (2 * a * 100000 + Scale) \div (2 * Scale)
    IN  IF v >= 0 THEN r ELSE -r

\* JSON.stringify of the rounded boxes, followed by the env tag.
QueryKey(requestBoxes, env) ==
    [boxes |-> [k \in 1..Len(requestBoxes) |->
                    [top |-> ToFixed5(requestBoxes[k].top),
                     bottom |-> ToFixed5(requestBoxes[k].bottom),
                     left |-> ToFixed5(requestBoxes[k].left),
                     right |-> ToFixed5(requestBoxes[k].right)]],
     env |-> env]

\* The initial policeLastQueryKeyRef: the empty string.
EmptyKey == [boxes |-> << >>, env |-> ""]

\* The key a cycle computes for a viewport and env mode.
KeyOfView(bounds, zoom, mode) ==
    QueryKey(buildWazeTileSnappedQuery(bounds, zoom).requestBoxes, ResolveEnv(mode, bounds))

\* ------------------------------------------------------------ retry directive
\* A Retry-After header: absent, a numeral, an HTTP date or other text.
NaN == -1
RetryAbsent == [kind |-> "absent", n |-> 0]
RetryNumber(n) == [kind |-> "number", n |-> n]
RetryDate(ms) == [kind |-> "date", n |-> ms]
RetryText == [kind |-> "text", n |-> 0]

\* Date.parse of the header.  An HTTP date parses to its time and other text
\* to NaN; a bare numeral such as "0" is outside the formats the language
\* defines, and an engine may reject it (NaN) or read it as a legacy date
\* (a time long before the clock's value).
DateParse(v) ==
    CASE v.kind = "date" -> {v.n}
      [] v.kind = "number" -> {NaN, 0}
      [] OTHER -> {NaN}

parseRetryAfterToMs(retryAfterValue, asDate, dateNow) ==
    IF retryAfterValue.kind = "absent" THEN DEFAULT_WAZE_RETRY_AFTER_SEC * 1000
    ELSE IF retryAfterValue.kind = "number" /\ retryAfterValue.n > 0
         THEN retryAfterValue.n * 1000
    ELSE IF asDate # NaN THEN Max(0, asDate - dateNow)
    ELSE DEFAULT_WAZE_RETRY_AFTER_SEC * 1000

\* ------------------------------------------------------------ messages
NoError == [text |-> "", n |-> 0]
RateLimitedMsg(sec) == [text |-> "Rate limited by Waze (429). Retrying in ~{n}s", n |-> sec]
RequestFailedMsg(status) == [text |-> "Waze request failed ({n})", n |-> status]
NetworkErrorMsg == [text |-> "Failed to fetch", n |-> 0]
JsonErrorMsg == [text |-> "Unexpected token", n |-> 0]

\* Math.ceil(a / b) for b > 0.
CeilDiv(a, b) == -((-a) \div b)

\* The remaining cooldown in seconds.
waitSec(backoffUntil, t) == CeilDiv(backoffUntil - t, 1000)

\* ------------------------------------------------------------ gates
\* Mutant: the cooldown is never honoured.
InBackoff_Never(t, backoffUntil) == FALSE

InBackoff(t, backoffUntil) == t < backoffUntil

\* Mutant: the interval is never enforced.
TooSoon_Never(t, lastFetchAt) == FALSE

TooSoon(t, lastFetchAt) == t - lastFetchAt < MIN_WAZE_FETCH_INTERVAL_MS

\* Mutant: the key is stored only when the cycle publishes.
KeyAtIssue_Stale(lastKey, queryKey) == lastKey

\* policeLastQueryKeyRef after the dedup gate let the cycle through: the
\* cycle's key, written before the requests are issued.
KeyAtIssue(lastKey, queryKey) == queryKey

\* Mutant: every failed response is taken for a rate limit.
IsRateLimited_AnyError(status) == status >= 400

IsRateLimited(status) == status = 429

\* Mutant: the result is published whether or not the cycle was aborted.
MayPublish_Always(aborted) == TRUE

\* The guard on the publication: the cycle's controller is not aborted.
MayPublish(aborted) == ~aborted

\* ------------------------------------------------------------ alerts
\* A feed entry: its identity, whether its type or subtype names police,
\* whether its location is numeric, and a revision telling copies apart.
RawAlert(id, police, numeric, rev) ==
    [id |-> id, police |-> police, numeric |-> numeric, rev |-> rev]

isPoliceAlert(a) == a.police

Payloads ==
    { << RawAlert(1, TRUE, TRUE, 1) >>,
      << RawAlert(1, TRUE, TRUE, 2), RawAlert(2, TRUE, FALSE, 1),
         RawAlert(3, FALSE, TRUE, 1), RawAlert(4, TRUE, TRUE, 1) >> }

\* payloads.flatMap(...), then the police entries with a numeric location.
PoliceOf(payloads) ==
    SelectSeq(ConcatAll(payloads), LAMBDA a : isPoliceAlert(a) /\ a.numeric)

\* Array.from(new Map(police.map(p => [p.id, p])).values()): one entry per
\* id, at the place of the id's first entry, holding the id's last entry.
\* Mutant: the entries are published as they came, without the Map.
DedupeById_None(police) == police

RECURSIVE DedupeById(_)
DedupeById(police) ==
    IF police = << >> THEN << >>
    ELSE LET n == Len(police)
             init == DedupeById(SubSeq(police, 1, n - 1))
             last == police[n]
         IN  IF \E i \in 1..Len(init) : init[i].id = last.id
             THEN [i \in 1..Len(init) |-> IF init[i].id = last.id THEN last ELSE init[i]]
             ELSE Append(init, last)

\* ------------------------------------------------------------ responses
Ok(status) == status >= 200 /\ status <= 299
NetworkFailure == 0
RetryHeaders ==
    { RetryAbsent, RetryNumber(0), RetryNumber(30),
      RetryDate(Now0 + 2000), RetryDate(Now0 - 1000), RetryText }
Responses ==
    { [status |-> st, retryAfter |-> RetryAbsent] : st \in {200, 500, NetworkFailure} }
        \cup { [status |-> 429, retryAfter |-> h] : h \in RetryHeaders }

\* The first response that is not ok, in request order (0 when all are ok).
FirstNotOk(resp) ==
    IF \A k \in 1..Len(resp) : Ok(resp[k].status) THEN 0
    ELSE CHOOSE k \in 1..Len(resp) :
            /\ ~Ok(resp[k].status)
            /\ \A i \in 1..(k - 1) : Ok(resp[i].status)

\* ------------------------------------------------------------ state
VARIABLES
    mapBounds,          \* useState: the viewport's bounds (null before the first event)
    mapZoom,            \* useState: the viewport's zoom
    wazeEnvMode,        \* useState: 'auto' | 'na' | 'row'
    wazeBoxesForDebug,  \* useMemo: the plan of the current viewport
    memoReady,          \* whether the memo was evaluated for the current viewport
    policeAlerts,       \* useState: the published alerts
    policeLoading,      \* useState
    policeError,        \* useState
    policeLastUpdatedAt,    \* useState (0 stands for null)
    policeBackoffUntil,     \* policeBackoffUntilRef.current
    policeLastFetchAt,      \* policeLastFetchAtRef.current
    policeLastQueryKey,     \* policeLastQueryKeyRef.current
    now,                \* Date.now()
    cycles,             \* the effect runs: each one's controller, timer and position
    nCycles,            \* the number of effect runs so far; the last is the current one
    requests,           \* the number of fetch() calls made so far
    lastIssueAt,        \* the time of the last fetch() call (0: none yet)
    lastIssuedKey,      \* the key of the last cycle that called fetch()
    publishedKey,       \* the key of the cycle that published policeAlerts
    boundsForDisplay,   \* useMemo boundsSubtitle: the normalised bounds it shows
    speedRadarsWorld,   \* useState: the static dataset
    speedRadarsInView,  \* useMemo: the dataset filtered to the viewport and clustered
    policeClusters,     \* useMemo: the published alerts clustered
    backoffSets,        \* the number of times a 429 wrote policeBackoffUntilRef.current
    warnings,           \* useState: the warnings of the polled feed
    polls,              \* the fetchWarnings calls: each one's position
    nPolls,             \* the number of fetchWarnings calls so far
    isMounted,          \* the polling effect's flag, cleared by its cleanup
    shownPoll           \* the call whose response set warnings last (0: none)

\* The memos of the display and of the two marker layers.
memoVars == << boundsForDisplay, speedRadarsWorld, speedRadarsInView, policeClusters >>
planVars == << mapBounds, mapZoom, wazeBoxesForDebug, memoReady, memoVars >>
refVars == << policeBackoffUntil, policeLastFetchAt, policeLastQueryKey >>
publishedVars == << policeAlerts, policeLastUpdatedAt >>
uiVars == << policeLoading, policeError >>
fetchVars == << wazeEnvMode, policeAlerts, policeLoading, policeError, policeLastUpdatedAt,
                policeBackoffUntil, policeLastFetchAt, policeLastQueryKey,
                now, cycles, nCycles, requests, lastIssueAt, lastIssuedKey, publishedKey,
                backoffSets >>
pollVars == << warnings, polls, nPolls, isMounted, shownPoll >>
vars == << planVars, fetchVars, pollVars >>

CycleIds == 1..MaxCycles

\* An effect run that has not happened yet.
NoCycle == [phase |-> "none", aborted |-> FALSE, deadline |-> 0, nreq |-> 0]
Finished(cy, phase) == [cy EXCEPT !.phase = phase, !.deadline = 0, !.nreq = 0]

\* Positions of an effect run:
\*   timer       the debounce timer is pending
\*   fetch       awaiting the responses
\*   json        awaiting the response bodies
\*   discarded   the bodies arrived after the abort and were not published
\*   done        the run is over otherwise: its timer was cleared, run()
\*               refused or skipped the cycle, or the cycle published,
\*               failed or returned on the abort

FetchInit ==
    /\ wazeEnvMode = "auto"
    /\ policeAlerts = << >>
    /\ policeLoading = FALSE
    /\ policeError = NoError
    /\ policeLastUpdatedAt = 0
    /\ policeBackoffUntil = 0
    /\ policeLastFetchAt = 0
    /\ policeLastQueryKey = EmptyKey
    /\ now = Now0
    /\ cycles = [c \in CycleIds |-> NoCycle]
    /\ nCycles = 0
    /\ requests = 0
    /\ lastIssueAt = 0
    /\ lastIssuedKey = EmptyKey
    /\ publishedKey = EmptyKey
    /\ backoffSets = 0

\* The memos before the first render, and the dataset before it is loaded.
NotRendered == [rendered |-> FALSE]
MemoInit ==
    /\ boundsForDisplay = NotRendered
    /\ speedRadarsWorld = << >>
    /\ speedRadarsInView = NotRendered
    /\ policeClusters = NotRendered

\* ------------------------------------------------------------ the polled warning feed
MaxPolls == 2
PollIds == 1..MaxPolls

\* An item of the feed's response; an item without a two-element point is skipped.
FeedItem(key, point, hasPoint) == [key |-> key, point |-> point, hasPoint |-> hasPoint]
\* A warning: id is `${userId}-${url}-${created}`.
Warning(item) == [id |-> item.key, point |-> item.point]

NotAnArray == [isArray |-> FALSE, items |-> << >>]
FeedArray(items) == [isArray |-> TRUE, items |-> items]
\* The bodies the feed answers with.
FeedBodies ==
    { NotAnArray,
      FeedArray(<< >>),
      FeedArray(<< FeedItem(1, 10, TRUE) >>),
      FeedArray(<< FeedItem(1, 11, TRUE), FeedItem(2, 20, TRUE) >>),
      FeedArray(<< FeedItem(3, 30, FALSE), FeedItem(2, 20, TRUE) >>) }

\* The updater passed to setWarnings: the valid items of data in order, an
\* item whose id is already shown keeps the object that is shown.
RECURSIVE NextWarnings(_, _)
NextWarnings(prev, items) ==
    IF items = << >> THEN << >>
    ELSE LET item == Head(items)
             rest == NextWarnings(prev, Tail(items))
         IN  IF ~item.hasPoint THEN rest
             ELSE IF \E i \in 1..Len(prev) : prev[i].id = item.key
             THEN << prev[CHOOSE i \in 1..Len(prev) : prev[i].id = item.key] >> \o rest
             ELSE << Warning(item) >> \o rest

\* The guard before setWarnings: the component is still mounted and the
\* body is an array.
MayApply(mounted, data) == mounted /\ data.isArray

\* Positions of a fetchWarnings call:
\*   none        not called yet
\*   fetch       awaiting the response
\*   json        awaiting the body
\*   failed      the response was not ok or the fetch rejected (logged)
\*   unreadable  reading the body failed (logged)
\*   dropped     the body arrived after the unmount or was not an array
\*   applied     the body was passed to setWarnings
PollInit ==
    /\ warnings = << >>
    /\ polls = [p \in PollIds |-> "none"]
    /\ nPolls = 0
    /\ isMounted = TRUE
    /\ shownPoll = 0

\* ------------------------------------------------------------ planner inputs
LngSamples ==
    { Deg(d) : d \in {-200, -180, -170, -100, -1, 0, 44, 45, 100, 170, 180, 190, 200} }
        \cup {SafeEastLng}
LatSamples ==
    { Deg(d) : d \in {-200, -180, -90, 0, 45, 100, 180, 200} }
        \cup {-WebMercatorMaxLat, SafeSouthLat, MercEdge - 1, WebMercatorMaxLat}
ZoomSamples == 0..MaxZoom

\* A Leaflet bounds object has south <= north and west <= east (raw edges).
SampleBounds ==
    { b \in { Bounds(n, s, w, e) : n \in LatSamples, s \in LatSamples,
                                   w \in LngSamples, e \in LngSamples } :
        b.south <= b.north /\ b.west <= b.east }

NoPlan == buildWazeTileSnappedQuery(NullBounds, InitialZoom)

\* A viewport reported by the map; its plan is not computed yet.
PlanInit ==
    /\ mapBounds \in SampleBounds
    /\ mapZoom \in ZoomSamples
    /\ wazeBoxesForDebug = NoPlan
    /\ memoReady = FALSE
    /\ MemoInit
    /\ FetchInit
    /\ PollInit

\* The render after a view change evaluates the wazeBoxesForDebug memo.
PlanRender ==
    /\ ~memoReady
    /\ wazeBoxesForDebug' = buildWazeTileSnappedQuery(mapBounds, mapZoom)
    /\ memoReady' = TRUE
    /\ UNCHANGED << mapBounds, mapZoom, memoVars, fetchVars >>
    /\ UNCHANGED pollVars

PlanNext == PlanRender

SpecPlan == PlanInit /\ [][PlanNext]_vars

\* ------------------------------------------------------------ the marker layers
\* In this part coordinates are in millidegrees (points, alerts and the
\* viewport), and within the viewport test in units of 1e-5 degree, in
\* which the padding of 0.44915... degree is 44915.
MilliDeg(d) == d * 1000
FinePerMilli == 100
FineHalfTurn == 18000000

\* Number of points of the static dataset.
MaxPoints == 3
\* Number of published alerts.
MaxAlerts == 3
\* The budget of visible dataset points: the program's 8000, scaled down.
MAX_VISIBLE_SPEED_RADARS == 2

POLICE_CLUSTER_RADIUS_METERS == 200
SPEED_RADAR_CLUSTER_RADIUS_METERS == 200
MIN_SPEED_RADAR_RENDER_ZOOM == 6
SPEED_RADAR_VIEW_PADDING_METERS == 50000
\* R * pi / 180 for R = 6371000: the metres of one degree of a great circle.
MetersPerDegree == 111195
\* The metres per degree of latitude the padding uses.
PadMetersPerDegree == 111320

Abs(x) == IF x >= 0 THEN x ELSE -x

\* floor(sqrt(n)), by bisection between lo and hi.
RECURSIVE ISqrtBetween(_, _, _)
ISqrtBetween(n, lo, hi) ==
    IF lo >= hi THEN lo
    ELSE LET mid == (lo + hi + 1) \div 2
         IN  IF mid * mid <= n THEN ISqrtBetween(n, mid, hi)
             ELSE ISqrtBetween(n, lo, mid - 1)
ISqrt(n) == ISqrtBetween(n, 0, 46340)

\* The haversine distance in whole metres between two locations near the
\* equator, where it is the length of the chord of the differences: exact to
\* a metre up to one degree apart, and a lower bound (at least 111 km) beyond.
\* The longitude difference is taken around the globe, as sin^2 takes it.
haversineMeters(a, b) ==
    LET dLat == Abs(b.lat - a.lat)
        turn == Abs(b.lng - a.lng) % MilliDeg(360)
        dLng == Min(turn, MilliDeg(360) - turn)
    IN  IF dLat <= MilliDeg(1) /\ dLng <= MilliDeg(1)
        THEN (ISqrt((dLat * dLat + dLng * dLng) * 100) * MetersPerDegree) \div 10000
        ELSE (Max(dLat, dLng) * (MetersPerDegree \div 1000))

\* p.location of an alert, { lat: p.lat, lng: p.lng } of a dataset point.
LocOf(p) ==
    IF "location" \in DOMAIN p THEN p.location ELSE [lat |-> p.lat, lng |-> p.lng]

nearAny(cluster, candidate, radiusMeters) ==
    \E i \in 1..Len(cluster) :
        haversineMeters(LocOf(cluster[i]), LocOf(candidate)) <= radiusMeters

RemoveAt(seq, i) == SubSeq(seq, 1, i - 1) \o SubSeq(seq, i + 1, Len(seq))

\* One pass of the for loop, from the last remaining candidate to the first.
RECURSIVE AbsorbPass(_, _, _, _, _)
AbsorbPass(cluster, remaining, i, radiusMeters, changed) ==
    IF i = 0 THEN [cluster |-> cluster, remaining |-> remaining, changed |-> changed]
    ELSE IF nearAny(cluster, remaining[i], radiusMeters)
         THEN AbsorbPass(Append(cluster, remaining[i]), RemoveAt(remaining, i), i - 1,
                         radiusMeters, TRUE)
         ELSE AbsorbPass(cluster, remaining, i - 1, radiusMeters, changed)

\* Mutant: a single pass, without the while (changed) around it.
Absorb_OnePass(cluster, remaining, radiusMeters) ==
    AbsorbPass(cluster, remaining, Len(remaining), radiusMeters, FALSE)

\* while (changed): passes until one absorbs nothing.
RECURSIVE Absorb(_, _, _)
Absorb(cluster, remaining, radiusMeters) ==
    LET pass == AbsorbPass(cluster, remaining, Len(remaining), radiusMeters, FALSE)
    IN  IF pass.changed THEN Absorb(pass.cluster, pass.remaining, radiusMeters)
        ELSE pass

\* while (remaining.length): the member lists of the clusters, in the order
\* they are made; the seed is popped from the end.
RECURSIVE GreedyClusters(_, _)
GreedyClusters(remaining, radiusMeters) ==
    IF remaining = << >> THEN << >>
    ELSE LET seed == remaining[Len(remaining)]
             grown == Absorb(<< seed >>, SubSeq(remaining, 1, Len(remaining) - 1),
                             radiusMeters)
         IN  << grown.cluster >> \o GreedyClusters(grown.remaining, radiusMeters)

RECURSIVE SumOf(_, _)
SumOf(cluster, axis) ==
    IF cluster = << >> THEN 0
    ELSE LocOf(Head(cluster))[axis] + SumOf(Tail(cluster), axis)

\* A quotient, kept as its numerator and denominator.
Ratio(num, den) == [num |-> num, den |-> den]

\* Mutant: the centre is the seed's location.
Centroid_Seed(cluster) ==
    [lat |-> Ratio(LocOf(cluster[1]).lat, 1), lng |-> Ratio(LocOf(cluster[1]).lng, 1)]

\* The reduce that sums the coordinates, and the divisions by the length.
Centroid(cluster) ==
    [lat |-> Ratio(SumOf(cluster, "lat"), Len(cluster)),
     lng |-> Ratio(SumOf(cluster, "lng"), Len(cluster))]

\* The reduce that picks the latest pubMillis, the later member on a tie.
RECURSIVE LatestOf(_, _)
LatestOf(best, rest) ==
    IF rest = << >> THEN best
    ELSE LatestOf(IF Head(rest).pubMillis >= best.pubMillis THEN Head(rest) ELSE best,
                  Tail(rest))

MakeCluster(cluster, primary) ==
    [id |-> primary.id, center |-> Centroid(cluster), primary |-> primary,
     count |-> Len(cluster), items |-> cluster]

clusterPoliceAlerts(alerts, radiusMeters) ==
    LET groups == GreedyClusters(alerts, radiusMeters)
    IN  [k \in 1..Len(groups) |-> MakeCluster(groups[k], LatestOf(groups[k][1], groups[k]))]

clusterPoints(points, radiusMeters) ==
    LET groups == GreedyClusters(points, radiusMeters)
    IN  [k \in 1..Len(groups) |-> MakeCluster(groups[k], groups[k][1])]

\* ------------------------------------------------------------ the viewport filter
\* Points and bounds in units of 1e-5 degree.
isPointInBounds(point, bounds) ==
    IF bounds.isNull THEN FALSE
    ELSE LET west == NormalizeWithin(bounds.west, FineHalfTurn)
             east == NormalizeWithin(bounds.east, FineHalfTurn)
             lng == NormalizeWithin(point.lng, FineHalfTurn)
         IN  IF point.lat > bounds.north \/ point.lat < bounds.south THEN FALSE
             ELSE IF west > east THEN lng >= west \/ lng <= east
             ELSE lng >= west /\ lng <= east

\* 1000 * cos of a latitude (millidegrees), at the latitudes of the sampled
\* viewport centres.
CosPermille(lat) ==
    CASE Abs(lat) <= MilliDeg(2) -> 1000
      [] Abs(lat) = MilliDeg(60) -> 500
      [] OTHER -> 87

\* Point and bounds in millidegrees; the padded bounds are not normalised
\* by L.latLngBounds.
isPointInBoundsPadded(point, bounds, padMeters) ==
    IF bounds.isNull THEN FALSE
    ELSE LET cLat == (bounds.north + bounds.south) \div 2
             latPad == (padMeters * 10000) \div (PadMetersPerDegree \div 10)
             lngPad == (latPad * 1000) \div Max(150, CosPermille(cLat))
             padded == Bounds(bounds.north * FinePerMilli + latPad,
                              bounds.south * FinePerMilli - latPad,
                              bounds.west * FinePerMilli - lngPad,
                              bounds.east * FinePerMilli + lngPad)
         IN  isPointInBounds([lat |-> point.lat * FinePerMilli,
                              lng |-> point.lng * FinePerMilli], padded)

\* Mutant: the budget counts as exceeded when it is reached.
OverBudget_AtBudget(inViewCount) == inViewCount >= MAX_VISIBLE_SPEED_RADARS

OverBudget(inViewCount) == inViewCount > MAX_VISIBLE_SPEED_RADARS

NothingInView == [rendered |-> TRUE, clusters |-> << >>, inViewCount |-> 0, tooMany |-> FALSE]

\* The for loop over the dataset, from point i on.
RECURSIVE FilterFrom(_, _, _, _, _)
FilterFrom(active, i, visible, inViewCount, bounds) ==
    IF i > Len(active)
    THEN [rendered |-> TRUE,
          clusters |-> clusterPoints(visible, SPEED_RADAR_CLUSTER_RADIUS_METERS),
          inViewCount |-> inViewCount, tooMany |-> FALSE]
    ELSE IF isPointInBoundsPadded(active[i], bounds, SPEED_RADAR_VIEW_PADDING_METERS)
    THEN LET pushed == IF Len(visible) <= MAX_VISIBLE_SPEED_RADARS
                       THEN Append(visible, active[i]) ELSE visible
         IN  IF OverBudget(inViewCount + 1)
             THEN [rendered |-> TRUE, clusters |-> << >>,
                   inViewCount |-> inViewCount + 1, tooMany |-> TRUE]
             ELSE FilterFrom(active, i + 1, pushed, inViewCount + 1, bounds)
    ELSE FilterFrom(active, i + 1, visible, inViewCount, bounds)

\* The speedRadarsInView memo.
FilterInView(active, showSpeedRadars, bounds, zoom, loading) ==
    IF ~showSpeedRadars THEN NothingInView
    ELSE IF bounds.isNull THEN NothingInView
    ELSE IF zoom < MIN_SPEED_RADAR_RENDER_ZOOM THEN NothingInView
    ELSE IF loading THEN NothingInView
    ELSE FilterFrom(active, 1, << >>, 0, bounds)

\* ------------------------------------------------------------ marker inputs
RadarPoint(id, lat, lng) == [id |-> id, lat |-> lat, lng |-> lng]
\* Three points 0.001 degree (111 m) apart in a row, one a degree away, and
\* one a quarter turn away.
RadarSamples ==
    { RadarPoint(1, 0, 0), RadarPoint(2, 0, 1), RadarPoint(3, 0, 2),
      RadarPoint(4, 0, MilliDeg(1)), RadarPoint(5, 0, MilliDeg(90)) }

PoliceAlert(id, lat, lng, pubMillis) ==
    [id |-> id, location |-> [lat |-> lat, lng |-> lng], pubMillis |-> pubMillis]
AlertSamples ==
    { PoliceAlert(1, 0, 0, 7), PoliceAlert(2, 0, 1, 7), PoliceAlert(3, 1, 2, 5),
      PoliceAlert(4, 0, MilliDeg(1), 9) }

\* The lists of up to n different elements of S.
SeqsOf(S, n) ==
    UNION { { q \in [1..k -> S] : \A i, j \in 1..k : q[i] = q[j] => i = j } : k \in 0..n }

\* A viewport around the points and one around the far point.
RadarBounds ==
    { Bounds(600, -600, -600, 600),
      Bounds(600, -600, MilliDeg(90) - 600, MilliDeg(90) + 600) }
RadarZooms == {MIN_SPEED_RADAR_RENDER_ZOOM - 1, MIN_SPEED_RADAR_RENDER_ZOOM}

\* The dataset is loaded and alerts are published; nothing is rendered yet.
MarkerInit ==
    /\ mapBounds \in RadarBounds
    /\ mapZoom \in RadarZooms
    /\ wazeBoxesForDebug = NoPlan
    /\ memoReady = FALSE
    /\ boundsForDisplay = NotRendered
    /\ speedRadarsWorld \in SeqsOf(RadarSamples, MaxPoints)
    /\ speedRadarsInView = NotRendered
    /\ policeClusters = NotRendered
    /\ wazeEnvMode = "auto"
    /\ policeAlerts \in SeqsOf(AlertSamples, MaxAlerts)
    /\ policeLoading = FALSE
    /\ policeError = NoError
    /\ policeLastUpdatedAt = Now0
    /\ policeBackoffUntil = 0
    /\ policeLastFetchAt = Now0
    /\ policeLastQueryKey = EmptyKey
    /\ now = Now0
    /\ cycles = [c \in CycleIds |-> NoCycle]
    /\ nCycles = 0
    /\ requests = 0
    /\ lastIssueAt = 0
    /\ lastIssuedKey = EmptyKey
    /\ publishedKey = EmptyKey
    /\ backoffSets = 0
    /\ PollInit

\* The render evaluates the speedRadarsInView memo (the layer is shown and
\* the dataset is not loading).
RadarRender ==
    /\ ~speedRadarsInView.rendered
    /\ speedRadarsInView' = FilterInView(speedRadarsWorld, TRUE, mapBounds, mapZoom, FALSE)
    /\ UNCHANGED << mapBounds, mapZoom, wazeBoxesForDebug, memoReady, boundsForDisplay,
                    speedRadarsWorld, policeClusters, fetchVars >>
    /\ UNCHANGED pollVars

\* The render evaluates the policeClusters memo.
PoliceRender ==
    /\ ~policeClusters.rendered
    /\ policeClusters' = [rendered |-> TRUE,
                          clusters |-> clusterPoliceAlerts(policeAlerts,
                                                           POLICE_CLUSTER_RADIUS_METERS)]
    /\ UNCHANGED << mapBounds, mapZoom, wazeBoxesForDebug, memoReady, boundsForDisplay,
                    speedRadarsWorld, speedRadarsInView, fetchVars >>
    /\ UNCHANGED pollVars

MarkerNext == RadarRender \/ PoliceRender

SpecMarkers == MarkerInit /\ [][MarkerNext]_vars

\* ------------------------------------------------------------ padding inputs
\* Viewports (millidegrees, raw Leaflet edges): around the origin; across the
\* antimeridian with the east edge beyond 180 and with the west edge beyond
\* -180; next to the antimeridian; 340 degrees wide; 359.8 degrees wide; at
\* latitude 60; 340 degrees wide at latitude 85.
PadBounds ==
    { Bounds(600, -600, -600, 600),
      Bounds(600, -600, MilliDeg(179) + 700, MilliDeg(180) + 300),
      Bounds(600, -600, MilliDeg(-180) - 300, MilliDeg(-179) - 700),
      Bounds(600, -600, MilliDeg(179) + 700, MilliDeg(179) + 900),
      Bounds(600, -600, MilliDeg(-170), MilliDeg(170)),
      Bounds(600, -600, MilliDeg(-180) + 100, MilliDeg(180) - 100),
      Bounds(MilliDeg(61), MilliDeg(59), -600, 600),
      Bounds(MilliDeg(86), MilliDeg(84), MilliDeg(-170), MilliDeg(170)) }
PadLats == { 0, MilliDeg(60), MilliDeg(85) }
PadLngs ==
    { 0, 500, MilliDeg(90), MilliDeg(179) + 800, MilliDeg(180) - 50, MilliDeg(180),
      MilliDeg(-180) + 50, MilliDeg(-179) - 800 }
PadPoints == { RadarPoint(1, lat, lng) : lat \in PadLats, lng \in PadLngs }
\* The paddings in metres: none, the program's, and four times as much.
PadSamples == { 0, SPEED_RADAR_VIEW_PADDING_METERS, 4 * SPEED_RADAR_VIEW_PADDING_METERS }

\* isPointInBounds of a point and bounds given in millidegrees.
InBounds(point, bounds) ==
    IF bounds.isNull THEN FALSE
    ELSE isPointInBounds([lat |-> point.lat * FinePerMilli, lng |-> point.lng * FinePerMilli],
                         Bounds(bounds.north * FinePerMilli, bounds.south * FinePerMilli,
                                bounds.west * FinePerMilli, bounds.east * FinePerMilli))

\* A viewport at the zoom floor and a dataset of at most one point.
PadInit ==
    /\ mapBounds \in PadBounds
    /\ mapZoom = MIN_SPEED_RADAR_RENDER_ZOOM
    /\ wazeBoxesForDebug = NoPlan
    /\ memoReady = FALSE
    /\ boundsForDisplay = NotRendered
    /\ speedRadarsWorld \in SeqsOf(PadPoints, 1)
    /\ speedRadarsInView = NotRendered
    /\ policeClusters = NotRendered
    /\ FetchInit
    /\ PollInit

PadNext == RadarRender

SpecPadding == PadInit /\ [][PadNext]_vars

\* ------------------------------------------------------------ the bounds display
getNormalizedBoundsForDisplay(bounds) ==
    IF bounds.isNull THEN [rendered |-> TRUE, isNull |-> TRUE]
    ELSE [rendered |-> TRUE, isNull |-> FALSE,
          north |-> bounds.north, south |-> bounds.south,
          west |-> normalizeLng(bounds.west), east |-> normalizeLng(bounds.east)]

\* Longitudes a wrapped map reports: up to two turns off, at and next to
\* the antimeridian and the turns.
DisplayLngs ==
    { Deg(d) + o : d \in {-540, -360, -190, -180, -90, 0, 90, 180, 190, 360, 540, 720},
                   o \in {-1, 0, 1} }
DisplayBounds ==
    { b \in { Bounds(Deg(10), Deg(-10), w, e) : w \in DisplayLngs, e \in DisplayLngs } :
        b.west <= b.east }

DisplayInit ==
    /\ mapBounds \in DisplayBounds
    /\ mapZoom = InitialZoom
    /\ wazeBoxesForDebug = NoPlan
    /\ memoReady = FALSE
    /\ MemoInit
    /\ FetchInit
    /\ PollInit

\* The render evaluates the boundsSubtitle memo.
DisplayRender ==
    /\ ~boundsForDisplay.rendered
    /\ boundsForDisplay' = getNormalizedBoundsForDisplay(mapBounds)
    /\ UNCHANGED << mapBounds, mapZoom, wazeBoxesForDebug, memoReady, speedRadarsWorld,
                    speedRadarsInView, policeClusters, fetchVars >>
    /\ UNCHANGED pollVars

DisplayNext == DisplayRender

SpecDisplay == DisplayInit /\ [][DisplayNext]_vars

\* ------------------------------------------------------------ fetch inputs
\* The viewports the map reports: North America, the same panned by less
\* than a tile, and one across the antimeridian.
FetchBounds ==
    { Bounds(Deg(100), Deg(45), Deg(-100), Deg(-1)),
      Bounds(Deg(100), Deg(45), Deg(-100) + 1, Deg(-1)),
      Bounds(Deg(100), Deg(45), Deg(170), Deg(190)) }
FetchZooms == {MaxZoom}
EnvModes == {"auto", "na"}
TickSteps == {debounceMs, MIN_WAZE_FETCH_INTERVAL_MS}

\* ------------------------------------------------------------ the police fetch effect
\* Mutant: the dedup skip returns without touching the loading flag.
LoadingAfterSkip_Kept(loading) == loading

\* The dedup skip: setPoliceLoading(false) before the return.
LoadingAfterSkip(loading) == FALSE

\* Mutant: the cleanup aborts the controller and leaves the timer pending.
Cleanup_KeepTimer(cy) == [cy EXCEPT !.aborted = TRUE]

\* The effect's cleanup: abort the controller and clear the timer.
Cleanup(cy) ==
    IF cy.phase = "timer"
    THEN [Finished(cy, "done") EXCEPT !.aborted = TRUE]
    ELSE [cy EXCEPT !.aborted = TRUE]

\* The effect re-runs for new dependencies: the previous run is cleaned up
\* and, unless there are no bounds yet, a new controller and a new debounce
\* timer are created.
RestartEffect(bounds, zoom, mode) ==
    IF bounds.isNull
    THEN UNCHANGED << cycles, nCycles >>
    ELSE /\ nCycles < MaxCycles
         /\ nCycles' = nCycles + 1
         /\ cycles' = [c \in CycleIds |->
                IF c = nCycles + 1
                THEN [phase |-> "timer", aborted |-> FALSE, deadline |-> now + debounceMs,
                      nreq |-> 0]
                ELSE IF c = nCycles THEN Cleanup(cycles[c]) ELSE cycles[c]]

\* moveend / zoomend: setMapBounds, setMapZoom; the memo and the effect re-run.
ViewChange(b, z) ==
    /\ mapBounds' = b
    /\ mapZoom' = z
    /\ wazeBoxesForDebug' = buildWazeTileSnappedQuery(b, z)
    /\ memoReady' = TRUE
    /\ RestartEffect(b, z, wazeEnvMode)
    /\ UNCHANGED << memoVars, wazeEnvMode, policeAlerts, policeLoading, policeError,
                    policeLastUpdatedAt, refVars, now, requests, lastIssueAt, lastIssuedKey, publishedKey >>
    /\ UNCHANGED << backoffSets, pollVars >>

\* The env select: setWazeEnvMode; the effect re-runs.
EnvModeChange(m) ==
    /\ m # wazeEnvMode
    /\ wazeEnvMode' = m
    /\ RestartEffect(mapBounds, mapZoom, m)
    /\ UNCHANGED << planVars, policeAlerts, policeLoading, policeError,
                    policeLastUpdatedAt, refVars, now, requests, lastIssueAt, lastIssuedKey, publishedKey >>
    /\ UNCHANGED << backoffSets, pollVars >>

\* The debounce timer fires: run() up to its first await or its return.
TimerFire ==
    /\ nCycles >= 1
    /\ cycles[nCycles].phase = "timer"
    /\ now >= cycles[nCycles].deadline
    /\ LET c == nCycles
           env == ResolveEnv(wazeEnvMode, mapBounds)
           requestBoxes == buildWazeTileSnappedQuery(mapBounds, mapZoom).requestBoxes
           queryKey == QueryKey(requestBoxes, env)
       IN  IF InBackoff(now, policeBackoffUntil)
           THEN /\ policeError' = RateLimitedMsg(waitSec(policeBackoffUntil, now))
                /\ policeLoading' = FALSE
                /\ cycles' = [cycles EXCEPT ![c] = Finished(@, "done")]
                /\ UNCHANGED << refVars, requests, lastIssueAt, lastIssuedKey, publishedKey >>
           ELSE IF TooSoon(now, policeLastFetchAt)
           THEN /\ cycles' = [cycles EXCEPT ![c] = Finished(@, "done")]
                /\ UNCHANGED << uiVars, refVars, requests, lastIssueAt, lastIssuedKey, publishedKey >>
           ELSE IF queryKey = policeLastQueryKey
           THEN /\ policeError' = NoError
                /\ policeLoading' = LoadingAfterSkip(policeLoading)
                /\ cycles' = [cycles EXCEPT ![c] = Finished(@, "done")]
                /\ UNCHANGED << refVars, requests, lastIssueAt, lastIssuedKey, publishedKey >>
           ELSE /\ policeError' = NoError
                /\ policeLoading' = TRUE
                /\ policeLastQueryKey' = KeyAtIssue(policeLastQueryKey, queryKey)
                /\ requests' = requests + Len(requestBoxes)
                /\ lastIssueAt' = now
                /\ lastIssuedKey' = queryKey
                /\ cycles' = [cycles EXCEPT ![c].phase = "fetch",
                                            ![c].deadline = 0,
                                            ![c].nreq = Len(requestBoxes)]
                /\ UNCHANGED << policeBackoffUntil, policeLastFetchAt, publishedKey >>
    /\ UNCHANGED << planVars, wazeEnvMode, publishedVars, now, nCycles >>
    /\ UNCHANGED << backoffSets, pollVars >>

\* The fetches of a cycle that is not aborted settle: resp[k] is the response
\* to request k (NetworkFailure: the fetch rejected), asDate what Date.parse
\* makes of the retry directive.
FetchResolve(c, resp, asDate) ==
    /\ cycles[c].phase = "fetch"
    /\ ~cycles[c].aborted
    /\ DOMAIN resp = 1..cycles[c].nreq
    /\ LET k == FirstNotOk(resp)
       IN  IF \E i \in 1..Len(resp) : resp[i].status = NetworkFailure
           THEN /\ asDate = NaN
                /\ policeError' = NetworkErrorMsg
                /\ policeLoading' = FALSE
                /\ cycles' = [cycles EXCEPT ![c] = Finished(@, "done")]
                /\ UNCHANGED << policeBackoffUntil, backoffSets >>
           ELSE IF k = 0
           THEN /\ asDate = NaN
                /\ cycles' = [cycles EXCEPT ![c].phase = "json"]
                /\ UNCHANGED << uiVars, policeBackoffUntil, backoffSets >>
           ELSE IF IsRateLimited(resp[k].status)
           THEN /\ asDate \in DateParse(resp[k].retryAfter)
                /\ policeBackoffUntil' =
                        now + parseRetryAfterToMs(resp[k].retryAfter, asDate, now)
                /\ backoffSets' = backoffSets + 1
                /\ policeError' = RateLimitedMsg(Max(waitSec(policeBackoffUntil', now), 1))
                /\ policeLoading' = FALSE
                /\ cycles' = [cycles EXCEPT ![c] = Finished(@, "done")]
           ELSE /\ asDate = NaN
                /\ policeError' = RequestFailedMsg(resp[k].status)
                /\ policeLoading' = FALSE
                /\ cycles' = [cycles EXCEPT ![c] = Finished(@, "done")]
                /\ UNCHANGED << policeBackoffUntil, backoffSets >>
    /\ UNCHANGED << planVars, wazeEnvMode, publishedVars, policeLastFetchAt,
                    policeLastQueryKey, now, nCycles, requests, lastIssueAt, lastIssuedKey, publishedKey >>
    /\ UNCHANGED pollVars

\* The fetches of an aborted cycle reject with the abort: catch returns.
FetchAbort(c) ==
    /\ cycles[c].phase = "fetch"
    /\ cycles[c].aborted
    /\ cycles' = [cycles EXCEPT ![c] = Finished(@, "done")]
    /\ UNCHANGED << planVars, wazeEnvMode, publishedVars, uiVars, refVars, now,
                    nCycles, requests, lastIssueAt, lastIssuedKey, publishedKey >>
    /\ UNCHANGED << backoffSets, pollVars >>

\* The bodies of a cycle arrive (also of an aborted cycle whose bodies were
\* read before the abort): the result is published unless the cycle is aborted.
JsonResolve(c, payloads) ==
    /\ cycles[c].phase = "json"
    /\ DOMAIN payloads = 1..cycles[c].nreq
    /\ IF MayPublish(cycles[c].aborted)
       THEN /\ policeAlerts' = DedupeById(PoliceOf(payloads))
            /\ policeLastUpdatedAt' = now
            /\ policeLastFetchAt' = now
            /\ publishedKey' = lastIssuedKey
            /\ cycles' = [cycles EXCEPT ![c] = Finished(@, "done")]
       ELSE /\ cycles' = [cycles EXCEPT ![c] = Finished(@, "discarded")]
            /\ UNCHANGED << publishedVars, policeLastFetchAt, publishedKey >>
    /\ policeLoading' = IF cycles[c].aborted THEN policeLoading ELSE FALSE
    /\ UNCHANGED << planVars, wazeEnvMode, policeError, policeBackoffUntil,
                    policeLastQueryKey, now, nCycles, requests, lastIssueAt, lastIssuedKey >>
    /\ UNCHANGED << backoffSets, pollVars >>

\* Reading a body fails: with the abort (catch returns) or for a malformed body.
JsonReject(c) ==
    /\ cycles[c].phase = "json"
    /\ IF cycles[c].aborted
       THEN /\ cycles' = [cycles EXCEPT ![c] = Finished(@, "done")]
            /\ UNCHANGED uiVars
       ELSE /\ policeError' = JsonErrorMsg
            /\ policeLoading' = FALSE
            /\ cycles' = [cycles EXCEPT ![c] = Finished(@, "done")]
    /\ UNCHANGED << planVars, wazeEnvMode, publishedVars, refVars, now, nCycles, requests, lastIssueAt, lastIssuedKey, publishedKey >>
    /\ UNCHANGED << backoffSets, pollVars >>

\* Time passes.
Tick(d) ==
    /\ now + d <= Now0 + MaxElapsed * debounceMs
    /\ now' = now + d
    /\ UNCHANGED << planVars, wazeEnvMode, publishedVars, uiVars, refVars, cycles,
                    nCycles, requests, lastIssueAt, lastIssuedKey, publishedKey >>
    /\ UNCHANGED << backoffSets, pollVars >>

\* What Date.parse may make of the directive the cycle reads.
AsDates(resp) ==
    LET k == FirstNotOk(resp)
    IN  IF k # 0 /\ IsRateLimited(resp[k].status) THEN DateParse(resp[k].retryAfter)
        ELSE {NaN}

ViewChanges == \E b \in FetchBounds, z \in FetchZooms : ViewChange(b, z)
EnvModeChanges == \E m \in EnvModes : EnvModeChange(m)
FetchResolves ==
    \E c \in CycleIds : \E resp \in [1..cycles[c].nreq -> Responses] :
        \E asDate \in AsDates(resp) : FetchResolve(c, resp, asDate)
FetchAborts == \E c \in CycleIds : FetchAbort(c)
JsonResolves ==
    \E c \in CycleIds : \E payloads \in [1..cycles[c].nreq -> Payloads] :
        JsonResolve(c, payloads)
JsonRejects == \E c \in CycleIds : JsonReject(c)
Ticks == \E d \in TickSteps : Tick(d)

Init ==
    /\ mapBounds = NullBounds
    /\ mapZoom = InitialZoom
    /\ wazeBoxesForDebug = NoPlan
    /\ memoReady = TRUE
    /\ MemoInit
    /\ FetchInit
    /\ PollInit

Next ==
    \/ ViewChanges
    \/ EnvModeChanges
    \/ TimerFire
    \/ FetchResolves
    \/ FetchAborts
    \/ JsonResolves
    \/ JsonRejects
    \/ Ticks

Spec == Init /\ [][Next]_vars

\* ------------------------------------------------------------ the polling effect
\* fetchWarnings is called: on mount and by every tick of the 60 s interval,
\* whether or not an earlier call has returned (the token is configured).
PollStart ==
    /\ isMounted
    /\ nPolls < MaxPolls
    /\ nPolls' = nPolls + 1
    /\ polls' = [polls EXCEPT ![nPolls + 1] = "fetch"]
    /\ UNCHANGED << warnings, isMounted, shownPoll, planVars, fetchVars >>

PollOutcomes == { "ok", "notOk", "rejected" }

\* The fetch of call p settles: an ok response goes on to res.json(), any
\* other response and a rejection are logged and end the call.
PollFetchResolve(p, outcome) ==
    /\ polls[p] = "fetch"
    /\ polls' = [polls EXCEPT ![p] = IF outcome = "ok" THEN "json" ELSE "failed"]
    /\ UNCHANGED << warnings, nPolls, isMounted, shownPoll, planVars, fetchVars >>

\* The body of call p arrives: setWarnings unless unmounted or not an array.
PollJsonResolve(p, data) ==
    /\ polls[p] = "json"
    /\ IF MayApply(isMounted, data)
       THEN /\ warnings' = NextWarnings(warnings, data.items)
            /\ shownPoll' = p
            /\ polls' = [polls EXCEPT ![p] = "applied"]
       ELSE /\ polls' = [polls EXCEPT ![p] = "dropped"]
            /\ UNCHANGED << warnings, shownPoll >>
    /\ UNCHANGED << nPolls, isMounted, planVars, fetchVars >>

\* Reading the body of call p fails: logged by the catch.
PollJsonReject(p) ==
    /\ polls[p] = "json"
    /\ polls' = [polls EXCEPT ![p] = "unreadable"]
    /\ UNCHANGED << warnings, nPolls, isMounted, shownPoll, planVars, fetchVars >>

\* The effect's cleanup: isMounted = false, clearInterval; calls under way go on.
PollUnmount ==
    /\ isMounted
    /\ isMounted' = FALSE
    /\ UNCHANGED << warnings, polls, nPolls, shownPoll, planVars, fetchVars >>

PollFetchResolves == \E p \in PollIds, outcome \in PollOutcomes : PollFetchResolve(p, outcome)
PollJsonResolves == \E p \in PollIds, data \in FeedBodies : PollJsonResolve(p, data)
PollJsonRejects == \E p \in PollIds : PollJsonReject(p)

PollNext ==
    \/ PollStart
    \/ PollFetchResolves
    \/ PollJsonResolves
    \/ PollJsonRejects
    \/ PollUnmount

SpecPoll == Init /\ [][PollNext]_vars

\* ------------------------------------------------------------ fetch claims
\* The key the current viewport and env mode yield.
CurrentKey == KeyOfView(mapBounds, mapZoom, wazeEnvMode)
\* This step issues network requests.
IssuesRequests == requests' > requests
NoNetworkFailure(resp) == \A i \in 1..Len(resp) : resp[i].status # NetworkFailure
Has429(resp) == \E i \in 1..Len(resp) : resp[i].status = 429
IsRateLimitedMsg(m) == m.text = RateLimitedMsg(0).text
\* The responses that are neither a 429 nor a rejected fetch.
NoRateLimitResponses == { r \in Responses : r.status \notin {429, NetworkFailure} }

\* C1: the published alerts and their timestamp change only in the step in
\* which the most recently started cycle, not aborted, receives its bodies;
\* the late bodies of an older, aborted cycle never change them.
C1_OnlyLatestCyclePublishes ==
    [][ (policeAlerts' # policeAlerts \/ policeLastUpdatedAt' # policeLastUpdatedAt)
            => /\ nCycles >= 1 /\ nCycles' = nCycles
               /\ cycles[nCycles].phase = "json" /\ ~cycles[nCycles].aborted
               /\ cycles'[nCycles].phase = "done" ]_vars

\* The first cycle's bodies arrived after its abort and were discarded, while
\* a newer cycle's alerts are published.
C1_Witness ==
    /\ nCycles >= 2
    /\ cycles[1].phase = "discarded"
    /\ policeAlerts # << >>

\* C2: a cycle that runs while now < backoffUntil issues no request, leaves
\* backoffUntil, lastFetchAt and lastQueryKey unchanged, and reports the
\* cooldown with ceil((backoffUntil - now) / 1000) seconds.
C2_BackoffRefuses ==
    [][ (TimerFire /\ now < policeBackoffUntil)
            => /\ requests' = requests
               /\ UNCHANGED << policeBackoffUntil, policeLastFetchAt, policeLastQueryKey >>
               /\ policeError' = RateLimitedMsg(CeilDiv(policeBackoffUntil - now, 1000))
               /\ cycles'[nCycles].phase = "done" ]_vars

\* The first cycle was rate limited until Now0 + 2000 at Now0 + 650; the
\* second ran at Now0 + 1300 and was refused with 1 second left (of 700 ms).
C2_Witness ==
    /\ nCycles = 2 /\ cycles[2].phase = "done"
    /\ requests = 1 /\ lastIssueAt = Now0 + debounceMs
    /\ policeBackoffUntil = Now0 + 2000
    /\ now = Now0 + 2 * debounceMs
    /\ policeError = RateLimitedMsg(1)

\* The duration C3 states for a retry directive read at time t.
ClaimedRetryMs(v, t) ==
    CASE v.kind = "number" -> v.n * 1000
      [] v.kind = "date" -> Max(0, v.n - t)
      [] OTHER -> 30000

\* C3: when a cycle receives a 429 response, backoffUntil becomes now + d,
\* d being N * 1000 for a directive of N seconds, the milliseconds until the
\* date (at least 0) for a date, and 30000 for an absent or unparseable one.
C3_BackoffFromDirective ==
    [][ \A c \in CycleIds : \A resp \in [1..cycles[c].nreq -> Responses] :
          \A asDate \in AsDates(resp) :
            (FetchResolve(c, resp, asDate) /\ NoNetworkFailure(resp) /\ Has429(resp))
                => \E i \in 1..Len(resp) :
                        /\ resp[i].status = 429
                        /\ policeBackoffUntil' = now + ClaimedRetryMs(resp[i].retryAfter, now)
      ]_vars

\* C4: a cycle whose key is the key of the most recent cycle that issued
\* requests issues none, whether or not those requests have completed; the
\* key is stored when the requests are issued.
C4_SameKeyIssuesOnce ==
    [][ /\ (TimerFire /\ CurrentKey = lastIssuedKey) => requests' = requests
        /\ IssuesRequests => policeLastQueryKey' = CurrentKey ]_vars

\* The first cycle's request is still in flight; the second cycle, for a
\* viewport panned by less than a tile, ran and issued nothing.
C4_Witness ==
    /\ nCycles = 2
    /\ cycles[1].phase = "fetch"
    /\ cycles[2].phase = "done"
    /\ mapBounds.west = Deg(-100) + 1
    /\ requests = 1
    /\ policeBackoffUntil = 0 /\ policeLastFetchAt = 0
    /\ policeLastQueryKey = CurrentKey

\* C5: if any response of a cycle has status 429, the cycle reports the rate
\* limit and sets backoffUntil, wherever the 429 is among the responses and
\* whatever the other statuses are.
C5_Any429IsRateLimited ==
    [][ \A c \in CycleIds : \A resp \in [1..cycles[c].nreq -> Responses] :
          \A asDate \in AsDates(resp) :
            (FetchResolve(c, resp, asDate) /\ NoNetworkFailure(resp) /\ Has429(resp))
                => /\ IsRateLimitedMsg(policeError')
                   /\ \E i \in 1..Len(resp) : \E d \in DateParse(resp[i].retryAfter) :
                        /\ resp[i].status = 429
                        /\ policeBackoffUntil' =
                                now + parseRetryAfterToMs(resp[i].retryAfter, d, now)
      ]_vars

\* C6: when the responses of a cycle include a failed one and no 429, the
\* cycle reports "request failed" with that status, and the published alerts,
\* their timestamp, backoffUntil and lastFetchAt stay as they were.
C6_FailureKeepsAlerts ==
    [][ \A c \in CycleIds :
          (cycles[c].phase = "fetch" /\ cycles'[c].phase # "fetch") =>
            \A resp \in [1..cycles[c].nreq -> NoRateLimitResponses] :
              \A asDate \in AsDates(resp) :
                (/\ FetchResolve(c, resp, asDate)
                 /\ \E i \in 1..Len(resp) : ~Ok(resp[i].status))
                    => /\ \E i \in 1..Len(resp) :
                            /\ ~Ok(resp[i].status)
                            /\ policeError' = RequestFailedMsg(resp[i].status)
                       /\ UNCHANGED << policeAlerts, policeLastUpdatedAt,
                                       policeBackoffUntil, policeLastFetchAt >>
      ]_vars

\* A cycle failed with status 500 after an earlier cycle had published: the
\* alerts are still there.
C6_Witness ==
    /\ policeError = RequestFailedMsg(500)
    /\ policeAlerts # << >>
    /\ policeLastUpdatedAt = policeLastFetchAt
    /\ lastIssueAt > policeLastUpdatedAt

\* C7 as stated: two cycles that issue requests issue them at least 2500 ms
\* apart, whatever the outcome of the earlier one.
C7_IssuesApart ==
    [][ (IssuesRequests /\ requests > 0)
            => now >= lastIssueAt + MIN_WAZE_FETCH_INTERVAL_MS ]_vars

\* C7 as amended: a cycle issues requests only when at least 2500 ms have
\* passed since the last publication, the completion of the last successful
\* cycle.
C7_IssuesAfterLastSuccess ==
    [][ IssuesRequests =>
            now >= policeLastUpdatedAt + MIN_WAZE_FETCH_INTERVAL_MS ]_vars

\* A cycle issued requests 2500 ms or more after a cycle had published.
C7_Witness ==
    /\ requests >= 2
    /\ policeLastUpdatedAt > 0
    /\ lastIssueAt >= policeLastUpdatedAt + MIN_WAZE_FETCH_INTERVAL_MS

\* The cycles whose requests or bodies are awaited.
InFlight == { c \in CycleIds : cycles[c].phase \in {"fetch", "json"} }
\* The cycles whose debounce timer is pending.
TimerPending == { c \in CycleIds : cycles[c].phase = "timer" }
\* This step is run() of cycle c: its timer fires.
RunsCycle(c) ==
    /\ cycles[c].phase = "timer" /\ cycles'[c].phase # "timer"
    /\ nCycles' = nCycles
Ids(alerts) == { alerts[i].id : i \in 1..Len(alerts) }

C14_Debounced ==
    [][ /\ Cardinality(TimerPending) <= 1
        /\ TimerPending \subseteq {nCycles}
        /\ \A c \in TimerPending :
                RunsCycle(c) => /\ c = nCycles
                                /\ now >= cycles[c].deadline
                                /\ cycles[c].deadline >= Now0 + debounceMs
        /\ IssuesRequests => lastIssuedKey' = CurrentKey
      ]_vars

\* Two view changes at the same instant: the first one's timer was cleared
\* and only the second one's cycle ran, 650 ms later.
C14_Witness ==
    /\ nCycles = 2
    /\ cycles[1].phase = "done" /\ cycles[1].aborted
    /\ cycles[2].phase = "fetch"
    /\ requests = 1
    /\ lastIssueAt = Now0 + debounceMs
    /\ now = Now0 + debounceMs

\* C16: backoffUntil, lastFetchAt and lastQueryKey are written only in a
\* step of the current cycle while it is not aborted; an aborted cycle never
\* writes them.
C16_AbortedCycleWritesNothing ==
    [][ << policeBackoffUntil, policeLastFetchAt, policeLastQueryKey >>' #
            << policeBackoffUntil, policeLastFetchAt, policeLastQueryKey >>
          => /\ nCycles >= 1 /\ nCycles' = nCycles
             /\ ~cycles[nCycles].aborted
             /\ cycles'[nCycles] # cycles[nCycles]
             /\ \A c \in CycleIds \ {nCycles} : cycles'[c] = cycles[c]
      ]_vars

\* The bodies of the aborted first cycle arrived late and lastFetchAt was
\* not written.
C16_Witness ==
    /\ nCycles = 2
    /\ cycles[1].phase = "discarded" /\ cycles[1].aborted
    /\ policeLastFetchAt = 0
    /\ policeLastUpdatedAt = 0

\* C17: a cycle that runs outside backoff less than 2500 ms after
\* lastFetchAt issues no request, reports no error, and leaves the published
\* alerts, lastQueryKey, lastFetchAt and backoffUntil unchanged; lastFetchAt
\* is written only by a cycle that publishes.
C17_ThrottleIsSilent ==
    [][ /\ (TimerFire /\ now >= policeBackoffUntil
                      /\ now - policeLastFetchAt < MIN_WAZE_FETCH_INTERVAL_MS)
            => /\ requests' = requests
               /\ UNCHANGED << policeError, policeAlerts, policeLastUpdatedAt,
                               policeLastQueryKey, policeLastFetchAt, policeBackoffUntil >>
        /\ policeLastFetchAt' # policeLastFetchAt
            => /\ policeLastFetchAt' = now
               /\ policeLastUpdatedAt' = now
               /\ cycles[nCycles].phase = "json" /\ cycles'[nCycles].phase = "done"
      ]_vars

\* The first cycle published at Now0 + 650; the second, for another key,
\* ran 650 ms later and was refused without a message.
C17_Witness ==
    /\ nCycles = 2 /\ cycles[2].phase = "done"
    /\ policeLastFetchAt = Now0 + debounceMs
    /\ now = Now0 + 2 * debounceMs
    /\ policeBackoffUntil = 0
    /\ policeError = NoError
    /\ policeLastQueryKey # CurrentKey
    /\ requests = 1

\* C20: when a cycle is skipped because its key equals lastQueryKey, the
\* published alerts are the result of a fetch of that key, or a fetch of
\* that key is in flight and not aborted.
C20_SkippedKeyWasFetched ==
    [][ (/\ TimerFire
         /\ now >= policeBackoffUntil
         /\ now - policeLastFetchAt >= MIN_WAZE_FETCH_INTERVAL_MS
         /\ CurrentKey = policeLastQueryKey)
            => \/ publishedKey = CurrentKey
               \/ \E c \in InFlight : ~cycles[c].aborted /\ lastIssuedKey = CurrentKey
      ]_vars

\* C21: with a clock that never goes back, policeBackoffUntilRef.current and
\* policeLastFetchAtRef.current never decrease, whatever retry duration a
\* later 429 carries and whenever a later success arrives.
C21_RefsNeverDecrease ==
    [][/\ policeBackoffUntil' >= policeBackoffUntil
       /\ policeLastFetchAt' >= policeLastFetchAt]_vars

\* A second 429, with a retry duration of zero, arrived after the backoff
\* of the first 429 had run out.
C21_Witness ==
    /\ backoffSets = 2
    /\ policeBackoffUntil = now
    /\ now > Now0 + 2000

\* The cycles that still await their responses or bodies and are not aborted.
LiveInFlight == { c \in InFlight : ~cycles[c].aborted }

\* C22: whenever no alert fetch is in flight (the fetches of aborted cycles
\* count as cancelled) and no debounce timer is pending, policeLoading is
\* false, whatever the preceding cycles went through.
C22_LoadingNeverStuck ==
    (LiveInFlight = {} /\ TimerPending = {}) => ~policeLoading

\* The first cycle was cancelled with its requests outstanding, which
\* left the flag set; the second cycle ended without publishing anything;
\* nothing is in flight or pending any more.
C22_Witness ==
    /\ nCycles = 2
    /\ cycles[1].aborted /\ cycles[1].phase = "done"
    /\ cycles[2].phase = "done" /\ ~cycles[2].aborted
    /\ requests > 0
    /\ lastIssuedKey = CurrentKey
    /\ publishedKey = EmptyKey
    /\ InFlight = {} /\ TimerPending = {}
    /\ ~policeLoading
    /\ policeError = NoError

\* ------------------------------------------------------------ marker claims
Range(seq) == { seq[i] : i \in 1..Len(seq) }

\* The members of S linked to a member of R by a chain of members of S with
\* consecutive distances within the radius.
RECURSIVE Reach(_, _, _)
Reach(R, S, radiusMeters) ==
    LET more == R \cup { q \in S : \E p \in R :
                            haversineMeters(LocOf(p), LocOf(q)) <= radiusMeters }
    IN  IF more = R THEN R ELSE Reach(more, S, radiusMeters)

\* The classes of the relation 'linked by a chain within the radius' on the
\* set S: they depend on the set of points only, not on their order.
ComponentsOf(S, radiusMeters) == { Reach({p}, S, radiusMeters) : p \in S }

\* The member sets of a list of clusters.
PartitionOf(clusters) == { Range(clusters[k].items) : k \in 1..Len(clusters) }

RECURSIVE SumCounts(_)
SumCounts(clusters) ==
    IF clusters = << >> THEN 0 ELSE Head(clusters).count + SumCounts(Tail(clusters))

\* The clusters partition the input into the connected components of the
\* relation 'distance <= radius'.
AreComponents(clusters, input, radiusMeters) ==
    /\ SumCounts(clusters) = Len(input)
    /\ \A p \in Range(input) :
            Cardinality({ k \in 1..Len(clusters) : p \in Range(clusters[k].items) }) = 1
    /\ \A k \in 1..Len(clusters) :
            clusters[k].count = Cardinality(Range(clusters[k].items))
    /\ PartitionOf(clusters) = ComponentsOf(Range(input), radiusMeters)

\* The input in every rotation and its reverse.
Reorderings(input) ==
    LET n == Len(input)
    IN  { [i \in 1..n |-> input[((i + k) % n) + 1]] : k \in 0..(n - 1) }
            \cup { [i \in 1..n |-> input[n + 1 - i]] }

\* The dataset points the padded viewport test accepts.
InViewPoints ==
    SelectSeq(speedRadarsWorld,
              LAMBDA p : isPointInBoundsPadded(p, mapBounds, SPEED_RADAR_VIEW_PADDING_METERS))
\* The filter runs: there are bounds and the zoom is at the floor or above.
FilterActive == ~mapBounds.isNull /\ mapZoom >= MIN_SPEED_RADAR_RENDER_ZOOM
RadarsClustered == speedRadarsInView.rendered /\ FilterActive /\ ~speedRadarsInView.tooMany

\* C11: the clusters partition the input, each cluster is a maximal
\* connected component of 'distance <= radius', and the partition is the same
\* for every order of the input; for clusterPoliceAlerts and clusterPoints.
\* Every order of every input is a state of SpecMarkers, and the partition
\* is compared with the classes of the point set and with the partition of
\* the rotated and reversed inputs.
C11_ClustersAreComponents ==
    /\ policeClusters.rendered =>
            /\ AreComponents(policeClusters.clusters, policeAlerts,
                             POLICE_CLUSTER_RADIUS_METERS)
            /\ \A other \in Reorderings(policeAlerts) :
                    PartitionOf(clusterPoliceAlerts(other, POLICE_CLUSTER_RADIUS_METERS))
                        = PartitionOf(policeClusters.clusters)
    /\ RadarsClustered =>
            /\ AreComponents(speedRadarsInView.clusters, InViewPoints,
                             SPEED_RADAR_CLUSTER_RADIUS_METERS)
            /\ \A other \in Reorderings(InViewPoints) :
                    PartitionOf(clusterPoints(other, SPEED_RADAR_CLUSTER_RADIUS_METERS))
                        = PartitionOf(speedRadarsInView.clusters)

\* Three alerts in a chain, the seed 248 m from the alert examined first:
\* one cluster of three, completed by a second pass.
C11_Witness ==
    /\ policeClusters.rendered
    /\ Len(policeAlerts) = 3
    /\ policeAlerts[1].id = 2 /\ policeAlerts[2].id = 3 /\ policeAlerts[3].id = 1
    /\ Len(policeClusters.clusters) = 1
    /\ policeClusters.clusters[1].count = 3

\* C12: when the filter runs, more in-view points than the budget give
\* tooMany and no cluster; otherwise tooMany is false and the clusters' counts
\* sum to the number of in-view points, each of which is in a cluster. In no
\* case is a non-empty list without some in-view point returned.
C12_FilterIsBinary ==
    speedRadarsInView.rendered =>
        /\ FilterActive =>
                IF Len(InViewPoints) > MAX_VISIBLE_SPEED_RADARS
                THEN /\ speedRadarsInView.tooMany
                     /\ speedRadarsInView.clusters = << >>
                ELSE /\ ~speedRadarsInView.tooMany
                     /\ SumCounts(speedRadarsInView.clusters) = Len(InViewPoints)
                     /\ UNION PartitionOf(speedRadarsInView.clusters) = Range(InViewPoints)
        /\ speedRadarsInView.clusters # << >> =>
                UNION PartitionOf(speedRadarsInView.clusters) = Range(InViewPoints)

\* One point more than the budget is in view: too many, nothing rendered.
C12_Witness ==
    /\ speedRadarsInView.rendered
    /\ FilterActive
    /\ Len(InViewPoints) = MAX_VISIBLE_SPEED_RADARS + 1
    /\ speedRadarsInView.tooMany
    /\ speedRadarsInView.clusters = << >>
    /\ speedRadarsInView.inViewCount = MAX_VISIBLE_SPEED_RADARS + 1

\* The centre of a cluster is the mean of its members' coordinates.
CenterIsMean(cl) ==
    /\ cl.count = Len(cl.items)
    /\ cl.center.lat.den > 0 /\ cl.center.lng.den > 0
    /\ cl.center.lat.num * cl.count = SumOf(cl.items, "lat") * cl.center.lat.den
    /\ cl.center.lng.num * cl.count = SumOf(cl.items, "lng") * cl.center.lng.den

C23_PaddingOnlyWidens ==
    speedRadarsInView.rendered =>
        \A i \in 1..Len(speedRadarsWorld) : \A pad \in PadSamples :
            InBounds(speedRadarsWorld[i], mapBounds)
                => isPointInBoundsPadded(speedRadarsWorld[i], mapBounds, pad)

\* The same for viewports that stay narrower than the globe when padded.
PaddedWidth(bounds, pad) ==
    LET cLat == (bounds.north + bounds.south) \div 2
        latPad == (pad * 10000) \div (PadMetersPerDegree \div 10)
        lngPad == (latPad * 1000) \div Max(150, CosPermille(cLat))
    IN  (bounds.east - bounds.west) * FinePerMilli + 2 * lngPad
PaddingWidensBelowFullTurn ==
    speedRadarsInView.rendered =>
        \A i \in 1..Len(speedRadarsWorld) : \A pad \in PadSamples :
            (PaddedWidth(mapBounds, pad) < 2 * FineHalfTurn
                /\ InBounds(speedRadarsWorld[i], mapBounds))
                => isPointInBoundsPadded(speedRadarsWorld[i], mapBounds, pad)

\* ------------------------------------------------------------ polling claims
\* C24: when calls of the polled feed overlap, a response that changes the
\* displayed warnings is never that of a call older than the one whose
\* response is displayed, and no response is applied after the unmount.
C24_LatestPollWins ==
    [][/\ \A p \in PollIds, data \in FeedBodies :
              (PollJsonResolve(p, data) /\ warnings' # warnings) => p >= shownPoll
       /\ ~isMounted => warnings' = warnings]_vars

\* What the code keeps: nothing is applied after the unmount.
NothingAppliedAfterUnmount ==
    [][~isMounted => (warnings' = warnings /\ shownPoll' = shownPoll)]_vars

\* ------------------------------------------------------------ display claims
SameMeridian(a, b) == (a - b) % Deg(360) = 0

\* C19 as stated: the result is congruent to the input modulo 360 and lies
\* in [-180, 180), except that the input 180 itself gives 180; normalising
\* twice gives what normalising once gives.
C19_NormalizeLngHalfOpen ==
    boundsForDisplay.rendered =>
        \A e \in { << mapBounds.west, boundsForDisplay.west >>,
                   << mapBounds.east, boundsForDisplay.east >> } :
            /\ SameMeridian(e[1], e[2])
            /\ \/ e[1] = Deg(180) /\ e[2] = Deg(180)
               \/ -Deg(180) <= e[2] /\ e[2] < Deg(180)
            /\ normalizeLng(e[2]) = e[2]

\* What the code does: the result lies in (-180, 180], and it is 180 for
\* every input congruent to 180 (180, -180, 540, ...).
NormalizeLngRange ==
    boundsForDisplay.rendered =>
        \A e \in { << mapBounds.west, boundsForDisplay.west >>,
                   << mapBounds.east, boundsForDisplay.east >> } :
            /\ SameMeridian(e[1], e[2])
            /\ -Deg(180) < e[2] /\ e[2] <= Deg(180)
            /\ (e[2] = Deg(180)) <=> SameMeridian(e[1], Deg(180))
            /\ normalizeLng(e[2]) = e[2]

\* ------------------------------------------------------------ planner claims
\* The current viewport, normalised as the planner normalises it.
NormWest == normalizeLng(mapBounds.west)
NormEast == normalizeLng(mapBounds.east)
Crossing == NormWest > NormEast

\* The number of tiles covering the current viewport at zoom z.
TileCountAt(z) ==
    computeAtZoom(Spans(NormWest, NormEast),
                  clampLat(mapBounds.north), clampLat(mapBounds.south), z).tileCount

\* C8: for every viewport, antimeridian-crossing ones included, the plan has
\* at most 24 debug tile boxes in total across its spans.
C8_DebugTilesWithinCap ==
    memoReady => Len(wazeBoxesForDebug.debugBoxes) <= MAX_WAZE_TILE_BOXES_PER_REQUEST

\* A crossing viewport whose tiles exceed the cap at the requested zoom, so
\* that the zoom was lowered.
C8_Witness ==
    /\ memoReady
    /\ Crossing
    /\ TileCountAt(mapZoom) > MAX_WAZE_TILE_BOXES_PER_REQUEST
    /\ wazeBoxesForDebug.usedZoom < mapZoom
    /\ Len(wazeBoxesForDebug.debugBoxes) > 0

\* C9: usedZoom is at most the requested zoom, the tile count at usedZoom
\* fits the cap, and no zoom above usedZoom up to the requested zoom fits it.
C9_UsedZoomIsLargestFitting ==
    memoReady =>
        /\ wazeBoxesForDebug.usedZoom \in 0..mapZoom
        /\ TileCountAt(wazeBoxesForDebug.usedZoom) <= MAX_WAZE_TILE_BOXES_PER_REQUEST
        /\ \A z \in (wazeBoxesForDebug.usedZoom + 1)..mapZoom :
                TileCountAt(z) > MAX_WAZE_TILE_BOXES_PER_REQUEST

\* The zoom was lowered by one from a requested zoom that does not fit.
C9_Witness ==
    /\ memoReady
    /\ mapZoom >= 2
    /\ wazeBoxesForDebug.usedZoom = mapZoom - 1
    /\ TileCountAt(mapZoom) > MAX_WAZE_TILE_BOXES_PER_REQUEST

\* C10: a viewport whose normalised west exceeds its normalised east gives
\* exactly two request boxes, the first reaching from the west edge to 180 and
\* the second from -180 to the east edge; any other viewport gives exactly one.
C10_RequestBoxPerSpan ==
    memoReady =>
        LET rb == wazeBoxesForDebug.requestBoxes
        IN  IF Crossing
            THEN /\ Len(rb) = 2
                 /\ rb[1].left <= NormWest /\ rb[1].right = Deg(180)
                 /\ rb[2].left = -Deg(180) /\ rb[2].right >= NormEast
            ELSE Len(rb) = 1

\* West 170, east 190 (that is -170): two request boxes.
C10_Witness ==
    /\ memoReady
    /\ mapBounds.west = Deg(170) /\ mapBounds.east = Deg(190)
    /\ NormWest = Deg(170) /\ NormEast = -Deg(170)
    /\ Len(wazeBoxesForDebug.requestBoxes) = 2


\* The bounding box of a non-empty list of boxes; of an empty list, no box.
BoundingBox(boxes) ==
    IF boxes = << >> THEN [empty |-> TRUE]
    ELSE LET I == 1..Len(boxes)
         IN  [top |-> CHOOSE v \in { boxes[i].top : i \in I } :
                        \A i \in I : boxes[i].top <= v,
              bottom |-> CHOOSE v \in { boxes[i].bottom : i \in I } :
                        \A i \in I : boxes[i].bottom >= v,
              left |-> CHOOSE v \in { boxes[i].left : i \in I } :
                        \A i \in I : boxes[i].left >= v,
              right |-> CHOOSE v \in { boxes[i].right : i \in I } :
                        \A i \in I : boxes[i].right <= v]

\* C18: at the used zoom every span has at least one debug tile with all
\* its indices within 0..2^z-1, the span's request box is the bounding box of
\* the span's debug tiles, and the request box contains the span's clamped,
\* normalised bounds, edges on longitude 180 or -180 included.
C18_SpanTilesCoverSpan ==
    memoReady =>
        LET z == wazeBoxesForDebug.usedZoom
            north == clampLat(mapBounds.north)
            south == clampLat(mapBounds.south)
            spans == Spans(NormWest, NormEast)
        IN  \A k \in 1..Len(spans) :
                LET t == SpanTiles(spans[k], north, south, z)
                    rb == wazeBoxesForDebug.requestBoxes[k]
                IN  /\ t.xMin <= t.xMax /\ t.yMin <= t.yMax
                    /\ {t.xMin, t.xMax, t.yMin, t.yMax} \subseteq 0..((2 ^ z) - 1)
                    /\ rb = BoundingBox(SpanDebugBoxes(t, z))
                    /\ rb.left <= spans[k].west /\ rb.right >= spans[k].east
                    /\ rb.top >= north /\ rb.bottom <= south

=========================================================================
